---- MODULE Spec2Model ----
(***************************************************************************)
(* A model of geocache.py: the PointCache sector buckets, the AppStorage   *)
(* roster, the geo auth tokens and the GeoApi / ManagementApi calls.       *)
(*                                                                         *)
(* Representation.                                                         *)
(*  - Wall-clock time (time.time(), a float) is counted in ticks of        *)
(*    1/TicksPerSecond second; exp_time values are whole seconds, as the   *)
(*    int() of the source makes them.                                      *)
(*  - Unit-cube coordinates are counted in units of 1/CubeScale; the       *)
(*    geodetic inputs are multiples of 90 degrees and of the Earth radius, *)
(*    for which _ToXYZ is exact in floating point.                         *)
(*  - Distances are kept squared (the square root is monotone, and the     *)
(*    code only compares and sorts distances).                             *)
(*  - A Python None coordinate is the empty tuple; a kwargs dict is a      *)
(*    record that holds only the keys that were passed.                    *)
(***************************************************************************)
EXTENDS Integers, Sequences, FiniteSets, TLC

(* ------------------------------ bounds --------------------------------- *)

\* clock resolution: ticks per second
TicksPerSecond == 2

\* PointCache._MAX_POINTS_PER_SECTOR is 125 in the source; scaled down
_MAX_POINTS_PER_SECTOR == 2

\* max_zoom_level given to CreateApp (20 in the driver); scaled down
MAX_ZOOM_LEVEL == 1

(* ------------------------- program constants --------------------------- *)

_TTL == 60

_GEO_AUTH_TOKEN_TTL == 3600

_EARTH_RADIUS == 6371 * 1000

_DEFAULT_POINTS_LIMIT == 100

UPDATE_POINT == 1

NEAREST_POINTS == 2

POINTS_COORDS == 3

\* 1.0 in unit-cube space; _ToXYZ scales by 0.25 = 1/CubeScale
CubeScale == 4

None == <<>>

(* ------------------------------ inputs --------------------------------- *)

app_id == "foobar"

PointIds == {"P0", "P1", "P2"}

(* ------------------------------ state ---------------------------------- *)

VARIABLES
  now,      \* time.time(), in ticks
  _APPS,    \* AppStorage._APPS
  _CACHE,   \* PointCache._CACHE
  last      \* what the last call was given, did and returned

vars == <<now, _APPS, _CACHE, last>>

\* an assignment to a local variable of the source: `value` is computed
\* once, and Body is the code that follows the assignment
Bind(value, Body(_)) == CHOOSE r \in {Body(v) : v \in {value}} : TRUE

(* ----------------------------- PointCache ------------------------------ *)

\* PointCache._Point
_Point(point_id, priority, exp_time) ==
  [point_id |-> point_id, priority |-> priority, exp_time |-> exp_time]

\* a variant of IsLive that keeps an entry at the instant it expires
IsLiveAtExpiry(p, current_time) ==
  p.exp_time * TicksPerSecond >= current_time

\* the test of _RemoveExpiredPoints: p.exp_time > current_time
IsLive(p, current_time) == p.exp_time * TicksPerSecond > current_time

_RemoveExpiredPoints(points, current_time) ==
  SelectSeq(points, LAMBDA p : IsLive(p, current_time))

\* int(current_time + PointCache._TTL)
ExpTime(current_time) ==
  (current_time + _TTL * TicksPerSecond) \div TicksPerSecond

\* a variant of SamePoint with the test inverted
SamePointInverted(p, point_id) == p.point_id # point_id

\* the match test of the scan of _UpdatePoint: p.point_id == point_id
SamePoint(p, point_id) == p.point_id = point_id

\* a variant of LowerPriority that tracks the maximum instead
LowerPriorityFlipped(p_priority, min_priority) == p_priority > min_priority

\* the comparison that moves the minimum in the scan of _UpdatePoint
LowerPriority(p_priority, min_priority) == p_priority < min_priority

\* a variant of ScanPoints that, on a match, gives the index of the minimum
\* tracked so far instead of the index of the match
RECURSIVE ScanPointsWrongIndex(_, _, _, _, _)
ScanPointsWrongIndex(points, point_id, i, min_priority_index, min_priority) ==
  IF i > Len(points)
    THEN [found |-> FALSE, index |-> min_priority_index,
          min_priority |-> min_priority]
  ELSE IF SamePoint(points[i], point_id)
    THEN [found |-> TRUE, index |-> min_priority_index,
          min_priority |-> min_priority]
  ELSE IF LowerPriority(points[i].priority, min_priority)
    THEN ScanPointsWrongIndex(points, point_id, i + 1, i, points[i].priority)
  ELSE ScanPointsWrongIndex(points, point_id, i + 1, min_priority_index,
                            min_priority)

\* the for loop of _UpdatePoint, from index i on
RECURSIVE ScanPoints(_, _, _, _, _)
ScanPoints(points, point_id, i, min_priority_index, min_priority) ==
  IF i > Len(points)
    THEN [found |-> FALSE, index |-> min_priority_index,
          min_priority |-> min_priority]
  ELSE IF SamePoint(points[i], point_id)
    THEN [found |-> TRUE, index |-> i, min_priority |-> min_priority]
  ELSE IF LowerPriority(points[i].priority, min_priority)
    THEN ScanPoints(points, point_id, i + 1, i, points[i].priority)
  ELSE ScanPoints(points, point_id, i + 1, min_priority_index, min_priority)

\* a variant of IsFull that finds the bucket full one entry too late
IsFullOffByOne(points) == Len(points) = _MAX_POINTS_PER_SECTOR + 1

\* len(points) == PointCache._MAX_POINTS_PER_SECTOR
IsFull(points) == Len(points) = _MAX_POINTS_PER_SECTOR

\* a variant of Admits that also admits on a tie
AdmitsTie(min_priority, priority) == min_priority <= priority

\* the admission test of a full bucket: min_priority < priority
Admits(min_priority, priority) == min_priority < priority

\* a variant of ReturnFalse that raises on a full bucket
ReturnFalseRaising(live) == [points |-> live, ret |-> FALSE, raised |-> TRUE]

\* the `return False` of a full bucket: the list is left as it is and
\* nothing is raised
ReturnFalse(live) == [points |-> live, ret |-> FALSE, raised |-> FALSE]

\* PointCache._UpdatePoint on the list `points` at time current_time:
\* the list it leaves, its return value, and whether its assertion failed
_UpdatePoint(points, point_id, priority, current_time) ==
  Bind(_RemoveExpiredPoints(points, current_time), LAMBDA live :
  Bind(_Point(point_id, priority, ExpTime(current_time)), LAMBDA new_point :
    IF Len(live) > _MAX_POINTS_PER_SECTOR
      THEN [points |-> live, ret |-> FALSE, raised |-> TRUE]
    ELSE IF live = <<>>
      THEN [points |-> <<new_point>>, ret |-> TRUE, raised |-> FALSE]
    ELSE Bind(ScanPoints(live, point_id, 1, 1, live[1].priority),
              LAMBDA scan :
           IF scan.found
             THEN [points |-> [live EXCEPT ![scan.index] = new_point],
                   ret |-> TRUE, raised |-> FALSE]
           ELSE IF IsFull(live)
             THEN IF Admits(scan.min_priority, priority)
                    THEN [points |-> [live EXCEPT ![scan.index] = new_point],
                          ret |-> TRUE, raised |-> FALSE]
                    ELSE ReturnFalse(live)
           ELSE [points |-> Append(live, new_point), ret |-> TRUE,
                 raised |-> FALSE])))

\* _CACHE.get(key): None and the empty list are both falsy
CacheGet(cache, key) == IF key \in DOMAIN cache THEN cache[key] ELSE <<>>

CachePut(cache, key, points) ==
  [k \in DOMAIN cache \cup {key} |-> IF k = key THEN points ELSE cache[k]]

\* PointCache.UpdatePointInSector: _CACHE[key] of the defaultdict creates
\* the list, _UpdatePoint changes it in place.  `call` is the record of the
\* call kept for the observer.
UpdatePointInSector(cache, key, point_id, priority, current_time) ==
  Bind(CacheGet(cache, key), LAMBDA before :
  Bind(_UpdatePoint(before, point_id, priority, current_time), LAMBDA r :
    [cache |-> CachePut(cache, key, r.points),
     ret |-> r.ret,
     raised |-> r.raised,
     call |-> [key |-> key, point_id |-> point_id, priority |-> priority,
               before |-> before,
               live |-> _RemoveExpiredPoints(before, current_time),
               after |-> r.points, ret |-> r.ret, raised |-> r.raised]]))

\* a variant of GetPointsInSector that reads the defaultdict by index, which
\* creates the list of an absent key
GetPointsInSectorCreating(cache, key, current_time) ==
  Bind(CacheGet(cache, key), LAMBDA points :
  Bind(_RemoveExpiredPoints(points, current_time), LAMBDA live :
    [cache |-> CachePut(cache, key, live), points |-> live]))

\* PointCache.GetPointsInSector: the cache it leaves and the list returned
GetPointsInSector(cache, key, current_time) ==
  Bind(CacheGet(cache, key), LAMBDA points :
  Bind(_RemoveExpiredPoints(points, current_time), LAMBDA live :
    IF points = <<>>
      THEN [cache |-> cache, points |-> <<>>]
      ELSE [cache |-> CachePut(cache, key, live), points |-> live]))

(* ----------------------------- AppStorage ------------------------------ *)

\* AppStorage._Point
_AppPoint(subjects, coord) == [subjects |-> subjects, coord |-> coord]

\* AppStorage.CreateApp; the two random keys are opaque values
CreateApp(max_zoom_level) ==
  [auth_key |-> "auth_key", hmac_key |-> "hmac_key",
   max_zoom_level |-> max_zoom_level, points |-> <<>>]

GetAuthKey(apps, app) == apps[app].auth_key

GetHmacKey(apps, app) == apps[app].hmac_key

GetMaxZoomLevel(apps, app) == apps[app].max_zoom_level

HasPoint(apps, app, point_id) == point_id \in DOMAIN apps[app].points

SetPoint(apps, app, point_id, p) ==
  [apps EXCEPT ![app].points =
    [q \in DOMAIN apps[app].points \cup {point_id} |->
      IF q = point_id THEN p ELSE apps[app].points[q]]]

AddPoint(apps, app, point_id) ==
  SetPoint(apps, app, point_id, _AppPoint(<<>>, None))

DeletePoint_(apps, app, point_id) ==
  [apps EXCEPT ![app].points =
    [q \in DOMAIN apps[app].points \ {point_id} |-> apps[app].points[q]]]

SetPointSubjects(apps, app, point_id, subjects) ==
  SetPoint(apps, app, point_id,
           [apps[app].points[point_id] EXCEPT !.subjects = subjects])

GetPointSubjects(apps, app, point_id) == apps[app].points[point_id].subjects

SetPointCoord(apps, app, point_id, coord) ==
  SetPoint(apps, app, point_id,
           [apps[app].points[point_id] EXCEPT !.coord = coord])

\* AppStorage.GetPointsCoords: ids not in the roster are skipped
GetPointsCoords(apps, app, points_ids) ==
  LET known == SelectSeq(points_ids, LAMBDA id : HasPoint(apps, app, id))
  IN  [i \in 1..Len(known) |-> <<known[i], apps[app].points[known[i]].coord>>]

(* ------------------------------ AuthUtils ------------------------------ *)

\* AuthUtils._GetHmac: an HMAC is determined by the key and the message,
\* and two different (key, message) pairs give different digests
_GetHmac(apps, app, msg) == <<GetHmacKey(apps, app), msg>>

\* AuthUtils.GetGeoAuthToken, called at time current_time
GetGeoAuthToken(apps, app, point_id, method_id, params, current_time) ==
  LET exp_time == (current_time + _GEO_AUTH_TOKEN_TTL * TicksPerSecond)
                    \div TicksPerSecond
      msg == <<app, point_id, method_id, params, exp_time>>
  IN  [msg |-> msg, msg_hmac |-> _GetHmac(apps, app, msg)]

\* the expiry test of ValidateGeoAuthToken: exp_time < time.time()
TokenExpired(exp_time, current_time) ==
  exp_time * TicksPerSecond < current_time

\* a variant of ValidateGeoAuthToken that looks for the point before it
\* looks at the expiry time
ValidateGeoAuthTokenRosterFirst(apps, geo_auth_token, current_time) ==
  LET msg == geo_auth_token.msg
  IN  IF msg[1] \notin DOMAIN apps
        THEN "KeyError"
      ELSE IF _GetHmac(apps, msg[1], msg) # geo_auth_token.msg_hmac
        THEN "invalid hmac"
      ELSE IF ~HasPoint(apps, msg[1], msg[2])
        THEN "no point"
      ELSE IF TokenExpired(msg[5], current_time)
        THEN "auth token has been expired"
      ELSE "ok"

\* AuthUtils.ValidateGeoAuthToken: "ok", or the exception it raises;
\* GetHmacKey raises KeyError on an app_id that is not in _APPS
ValidateGeoAuthToken(apps, geo_auth_token, current_time) ==
  LET msg == geo_auth_token.msg
  IN  IF msg[1] \notin DOMAIN apps
        THEN "KeyError"
      ELSE IF _GetHmac(apps, msg[1], msg) # geo_auth_token.msg_hmac
        THEN "invalid hmac"
      ELSE IF TokenExpired(msg[5], current_time)
        THEN "auth token has been expired"
      ELSE IF ~HasPoint(apps, msg[1], msg[2])
        THEN "no point"
      ELSE "ok"

GetAppAuthToken(apps, app) == <<app, GetAuthKey(apps, app)>>

\* AuthUtils.ValidateAppAuthToken: TRUE when it returns, FALSE when it raises
ValidateAppAuthToken(apps, app_auth_token) ==
  GetAuthKey(apps, app_auth_token[1]) = app_auth_token[2]

(* ------------------------- GeoApi: geometry ---------------------------- *)

\* kwargs.get(key, default)
KwGet(kwargs, key, default) ==
  IF key \in DOMAIN kwargs THEN kwargs[key] ELSE default

\* math.cos and math.sin of an angle that is a multiple of 90 degrees
Cos90(deg) == <<1, 0, -1, 0>>[((deg \div 90) % 4) + 1]

Sin90(deg) == <<0, 1, 0, -1>>[((deg \div 90) % 4) + 1]

\* the two range assertions of _ToXYZ.  They compare the angle in RADIANS
\* with +-90 and +-180: deg / 180.0 * pi <= 90, with 355/113 for pi (the
\* two agree on every whole number of degrees)
PhiInRange(deg) == -90 * 180 * 113 <= deg * 355 /\ deg * 355 <= 90 * 180 * 113

GammaInRange(deg) ==
  -180 * 180 * 113 <= deg * 355 /\ deg * 355 <= 180 * 180 * 113

\* GeoApi._ToXYZ on (phi, gamma, elevation) in degrees, degrees and metres,
\* for angles that are multiples of 90 and elevations that are multiples of
\* _EARTH_RADIUS; the result is in units of 1/CubeScale
_ToXYZ(coord) ==
  LET e0 == coord[3] \div _EARTH_RADIUS
      elevation == IF e0 < -1 THEN -1 ELSE IF e0 > 1 THEN 1 ELSE e0
      r == 1 + elevation
      r_xy == r * Cos90(coord[1])
      z == r * Sin90(coord[1])
      x == r_xy * Cos90(coord[2])
      y == r_xy * Sin90(coord[2])
      half == CubeScale \div 2
      quarter == CubeScale \div 4
      xyz == <<quarter * x + half, quarter * y + half, quarter * z + half>>
  IN  [ok |-> /\ PhiInRange(coord[1])
              /\ GammaInRange(coord[2])
              /\ \A i \in 1..3 : 0 <= xyz[i] /\ xyz[i] <= CubeScale,
       xyz |-> xyz]

\* GeoApi._GetDistance, squared, in units of 1/CubeScale^2
_GetDistance2(coord1, coord2) ==
  LET dx == coord1[1] - coord2[1]
      dy == coord1[2] - coord2[2]
      dz == coord1[3] - coord2[3]
  IN  dx * dx + dy * dy + dz * dz

\* 1 << zoom_level
RECURSIVE TilesCount(_)
TilesCount(zoom_level) ==
  IF zoom_level = 0 THEN 1 ELSE 2 * TilesCount(zoom_level - 1)

Min(a, b) == IF a < b THEN a ELSE b

\* one axis of _GetSectorId: min(tiles_count - 1, int(x * tiles_count))
AxisId(x, tiles_count) ==
  Min(tiles_count - 1, (x * tiles_count) \div CubeScale)

\* GeoApi._GetSectorId
_GetSectorId(coord, zoom_level) ==
  LET tiles_count == TilesCount(zoom_level)
  IN  <<AxisId(coord[1], tiles_count), AxisId(coord[2], tiles_count),
        AxisId(coord[3], tiles_count), zoom_level>>

\* GeoApi._GetNearestSectorIds: the 27 ids in the order of the source
_GetNearestSectorIds(sector_id) ==
  [i \in 1..27 |->
    <<sector_id[1] + ((i - 1) % 3) - 1,
      sector_id[2] + (((i - 1) \div 3) % 3) - 1,
      sector_id[3] + ((i - 1) \div 9) - 1,
      sector_id[4]>>]

\* int(math.log(multiplier, 2)) for a whole multiplier >= 1
RECURSIVE Log2(_)
Log2(multiplier) ==
  IF multiplier < 2 THEN 0 ELSE 1 + Log2(multiplier \div 2)

\* GeoApi._GetZoomLevel for a whole radius: the Python 2 division of two
\* ints floors, and math.log(0, 2) raises ValueError
_GetZoomLevel(apps, app, kwargs) ==
  LET max_zoom_level == GetMaxZoomLevel(apps, app)
      radius == KwGet(kwargs, "radius", 0)
      multiplier == (_EARTH_RADIUS * 2) \div radius
      zoom_level == Log2(multiplier)
  IN  IF radius <= 0 THEN [ok |-> TRUE, zoom_level |-> max_zoom_level]
      ELSE IF multiplier = 0 THEN [ok |-> FALSE, zoom_level |-> 0]
      ELSE IF zoom_level < 0 THEN [ok |-> TRUE, zoom_level |-> 0]
      ELSE IF zoom_level > max_zoom_level
        THEN [ok |-> TRUE, zoom_level |-> max_zoom_level]
      ELSE [ok |-> TRUE, zoom_level |-> zoom_level]

\* GeoApi._GetPointCoord: the coord of kwargs projected, or the stored
\* coord of the point (None when the point never published one)
_GetPointCoord(apps, app, point_id, kwargs) ==
  IF "coord" \in DOMAIN kwargs
    THEN Bind(_ToXYZ(kwargs.coord), LAMBDA c : [ok |-> c.ok, coord |-> c.xyz])
    ELSE [ok |-> TRUE,
          coord |-> GetPointsCoords(apps, app, <<point_id>>)[1][2]]

(* ------------------------ GeoApi._UpdatePoint -------------------------- *)

\* a variant of Climb that goes on to the next zoom level after a sector
\* has rejected the point
RECURSIVE ClimbThrough(_, _, _, _, _, _, _, _)
ClimbThrough(cache, app, subject_id, priority, point_id, coord, zoom_level, t) ==
  Bind(_GetSectorId(coord, zoom_level), LAMBDA sector_id :
  Bind(UpdatePointInSector(cache, <<app, subject_id, sector_id, zoom_level>>,
                           point_id, priority, t), LAMBDA u :
    IF u.raised \/ zoom_level = 0
      THEN [cache |-> u.cache, raised |-> u.raised, calls |-> <<u.call>>]
      ELSE Bind(ClimbThrough(u.cache, app, subject_id, priority, point_id,
                             coord, zoom_level - 1, t), LAMBDA rest :
             [cache |-> rest.cache, raised |-> rest.raised,
              calls |-> <<u.call>> \o rest.calls])))

\* the while loop of GeoApi._UpdatePoint for one (subject_id, priority),
\* from zoom_level down: the cache it leaves and the calls it made
RECURSIVE Climb(_, _, _, _, _, _, _, _)
Climb(cache, app, subject_id, priority, point_id, coord, zoom_level, t) ==
  Bind(_GetSectorId(coord, zoom_level), LAMBDA sector_id :
  Bind(UpdatePointInSector(cache, <<app, subject_id, sector_id, zoom_level>>,
                           point_id, priority, t), LAMBDA u :
    IF u.raised \/ ~u.ret \/ zoom_level = 0
      THEN [cache |-> u.cache, raised |-> u.raised, calls |-> <<u.call>>]
      ELSE Bind(Climb(u.cache, app, subject_id, priority, point_id, coord,
                      zoom_level - 1, t), LAMBDA rest :
             [cache |-> rest.cache, raised |-> rest.raised,
              calls |-> <<u.call>> \o rest.calls])))

\* the for loop of GeoApi._UpdatePoint over subjects[i..]
RECURSIVE ForSubjects(_, _, _, _, _, _, _, _)
ForSubjects(cache, app, subjects, i, point_id, coord, max_zoom_level, t) ==
  IF i > Len(subjects)
    THEN [cache |-> cache, raised |-> FALSE, calls |-> <<>>]
    ELSE Bind(Climb(cache, app, subjects[i][1], subjects[i][2], point_id,
                    coord, max_zoom_level, t), LAMBDA c :
           IF c.raised
             THEN c
             ELSE Bind(ForSubjects(c.cache, app, subjects, i + 1, point_id,
                                   coord, max_zoom_level, t), LAMBDA rest :
                    [cache |-> rest.cache, raised |-> rest.raised,
                     calls |-> c.calls \o rest.calls]))

\* GeoApi._UpdatePoint: kwargs['coord'] raises KeyError when absent, _ToXYZ
\* raises on a failed assertion; both before any state is written
GeoApi_UpdatePoint(apps, cache, app, point_id, kwargs, t) ==
  IF "coord" \notin DOMAIN kwargs
    THEN [apps |-> apps, cache |-> cache, status |-> "raised",
          coord |-> None, calls |-> <<>>]
    ELSE Bind(_ToXYZ(kwargs.coord), LAMBDA c :
           IF ~c.ok
             THEN [apps |-> apps, cache |-> cache, status |-> "raised",
                   coord |-> None, calls |-> <<>>]
             ELSE Bind(ForSubjects(cache, app,
                                   GetPointSubjects(apps, app, point_id), 1,
                                   point_id, c.xyz,
                                   GetMaxZoomLevel(apps, app), t), LAMBDA f :
                    [apps |-> SetPointCoord(apps, app, point_id, c.xyz),
                     cache |-> f.cache,
                     status |-> IF f.raised THEN "raised" ELSE "ok",
                     coord |-> c.xyz, calls |-> f.calls]))

(* ----------------------- GeoApi._NearestPoints ------------------------- *)

MapPut(map, key, value) ==
  [k \in DOMAIN map \cup {key} |-> IF k = key THEN value ELSE map[k]]

\* GeoApi._ExtendPoints over points[i..]
RECURSIVE _ExtendPoints(_, _, _)
_ExtendPoints(points_map, points, i) ==
  IF i > Len(points) THEN points_map
  ELSE IF points[i].point_id \in DOMAIN points_map
    THEN _ExtendPoints(points_map, points, i + 1)
  ELSE _ExtendPoints(
         MapPut(points_map, points[i].point_id,
                [point_id |-> points[i].point_id,
                 priority |-> points[i].priority,
                 exp_time |-> points[i].exp_time]),
         points, i + 1)

\* the lists of reads[i..], one after the other
RECURSIVE Flatten(_, _)
Flatten(reads, i) ==
  IF i > Len(reads) THEN <<>> ELSE reads[i].points \o Flatten(reads, i + 1)

\* the for loop of _NearestPoints over the neighbour sectors `ids`: every
\* sector is read with GetPointsInSector, in order, and its list is given
\* to _ExtendPoints.  The 27 keys differ, so no read sees the purge of
\* another; `bucket` tells whether the key has a bucket after its read.
CollectSectors(cache, points_map, app, subject_id, ids, zoom_level, t) ==
  Bind([i \in 1..Len(ids) |-> <<app, subject_id, ids[i], zoom_level>>],
       LAMBDA keys :
  Bind([i \in 1..Len(ids) |->
         Bind(GetPointsInSector(cache, keys[i], t), LAMBDA g :
           [key |-> keys[i], before |-> CacheGet(cache, keys[i]),
            points |-> g.points, after |-> CacheGet(g.cache, keys[i]),
            bucket |-> keys[i] \in DOMAIN g.cache])],
       LAMBDA reads :
    [cache |-> [k \in DOMAIN cache
                       \cup {keys[i] : i \in {j \in 1..Len(ids) :
                                                reads[j].bucket}} |->
                 IF \E i \in 1..Len(ids) : keys[i] = k
                   THEN reads[CHOOSE i \in 1..Len(ids) : keys[i] = k].after
                   ELSE cache[k]],
     points_map |-> _ExtendPoints(points_map, Flatten(reads, 1), 1),
     reads |-> reads]))

\* GeoApi._AddMissingCoordAndDistance: ids that are not in the roster get
\* neither coord nor distance; _GetDistance raises TypeError on a None coord
_AddMissingCoordAndDistance(apps, app, points_map, coord) ==
  LET missing == {id \in DOMAIN points_map :
                    "coord" \notin DOMAIN points_map[id]}
      known == {id \in missing : HasPoint(apps, app, id)}
      CoordOf(id) == apps[app].points[id].coord
  IN  IF \E id \in known : CoordOf(id) = None
        THEN [ok |-> FALSE, points_map |-> points_map]
        ELSE [ok |-> TRUE,
              points_map |->
                [id \in DOMAIN points_map |->
                  IF id \in known
                    THEN [point_id |-> id,
                          priority |-> points_map[id].priority,
                          exp_time |-> points_map[id].exp_time,
                          coord |-> CoordOf(id),
                          distance |-> _GetDistance2(coord, CoordOf(id))]
                    ELSE points_map[id]]]

\* p['distance'] < max_distance, for the squared distance in units of
\* 1/CubeScale^2 and max_distance = num / den of the unit cube
CloserThan(distance2, num, den) ==
  distance2 * den * den < num * num * CubeScale * CubeScale

\* GeoApi._FilterPoints: p['distance'] raises KeyError on a record without
\* distance
_FilterPoints(points_map, num, den) ==
  IF \E id \in DOMAIN points_map : "distance" \notin DOMAIN points_map[id]
    THEN [ok |-> FALSE, ids |-> {}]
    ELSE [ok |-> TRUE,
          ids |-> {id \in DOMAIN points_map :
                     CloserThan(points_map[id].distance, num, den)}]

\* a variant of EnoughPoints that also stops at exactly points_limit
EnoughPointsAtLimit(count, points_limit) == count >= points_limit

\* the stop test of the descent: len(filtered_points) > points_limit
EnoughPoints(count, points_limit) == count > points_limit

\* the while loop of _NearestPoints from zoom_level on, with
\* tile_size = num / den
RECURSIVE Descend(_, _, _, _, _, _, _, _, _, _, _)
Descend(apps, cache, points_map, app, subject_id, coord, points_limit, zoom_level, num, den, t) ==
  Bind(_GetSectorId(coord, zoom_level), LAMBDA sector_id :
  Bind(CollectSectors(cache, points_map, app, subject_id,
                      _GetNearestSectorIds(sector_id), zoom_level, t),
       LAMBDA c :
  Bind(_AddMissingCoordAndDistance(apps, app, c.points_map, coord),
       LAMBDA a :
  Bind(_FilterPoints(a.points_map, num, den), LAMBDA f :
  Bind([zoom_level |-> zoom_level, candidates |-> DOMAIN c.points_map,
        filtered |-> f.ids], LAMBDA iter :
    IF ~a.ok \/ ~f.ok
      THEN [ok |-> FALSE, cache |-> c.cache, points_map |-> a.points_map,
            filtered |-> {}, reads |-> c.reads, iters |-> <<iter>>]
    ELSE IF EnoughPoints(Cardinality(f.ids), points_limit) \/ zoom_level = 0
      THEN [ok |-> TRUE, cache |-> c.cache, points_map |-> a.points_map,
            filtered |-> f.ids, reads |-> c.reads, iters |-> <<iter>>]
    ELSE Bind(Descend(apps, c.cache, a.points_map, app, subject_id, coord,
                      points_limit, zoom_level - 1, 2 * num, den, t),
              LAMBDA rest :
           [ok |-> rest.ok, cache |-> rest.cache,
            points_map |-> rest.points_map, filtered |-> rest.filtered,
            reads |-> c.reads \o rest.reads,
            iters |-> <<iter>> \o rest.iters]))))))

\* a variant of SliceLen that keeps one item more
SliceLenPlusOne(n, limit) ==
  IF limit >= 0 THEN Min(n, limit + 1)
  ELSE IF n + limit > 0 THEN n + limit ELSE 0

\* list[:limit] of a list of length n: how many items it keeps
SliceLen(n, limit) ==
  IF limit >= 0 THEN Min(n, limit) ELSE IF n + limit > 0 THEN n + limit ELSE 0

\* filtered.sort(key=distance)[:points_limit]: the lists the sort can give.
\* The list sorted comes from dict.values(), whose order is that of the
\* hash table, so records at equal distance may come in any order.
SortedSlices(points_map, ids, points_limit) ==
  LET n == Cardinality(ids)
      orders == {s \in [1..n -> ids] :
                   /\ \A i, j \in 1..n : i # j => s[i] # s[j]
                   /\ \A i \in 1..(n - 1) :
                        points_map[s[i]].distance
                          <= points_map[s[i + 1]].distance}
  IN  {[i \in 1..SliceLen(n, points_limit) |->
          [point_id |-> s[i],
           priority |-> points_map[s[i]].priority,
           distance |-> points_map[s[i]].distance]] : s \in orders}

\* GeoApi._NearestPoints up to the sort: _GetSectorId raises TypeError on a
\* None coord, before any bucket is read
GeoApi_NearestPoints(apps, cache, app, point_id, subject_id, kwargs, t) ==
  Bind(_GetPointCoord(apps, app, point_id, kwargs), LAMBDA c :
  Bind(KwGet(kwargs, "points_limit", _DEFAULT_POINTS_LIMIT),
       LAMBDA points_limit :
  Bind(_GetZoomLevel(apps, app, kwargs), LAMBDA z :
    IF ~c.ok \/ ~z.ok \/ c.coord = None
      THEN [cache |-> cache, status |-> "raised", coord |-> None,
            points_limit |-> points_limit, points_map |-> <<>>,
            filtered |-> {}, reads |-> <<>>, iters |-> <<>>]
      ELSE Bind(Descend(apps, cache, <<>>, app, subject_id, c.coord,
                        points_limit, z.zoom_level, 1,
                        TilesCount(z.zoom_level), t), LAMBDA d :
             [cache |-> d.cache,
              status |-> IF d.ok THEN "ok" ELSE "raised",
              coord |-> c.coord, points_limit |-> points_limit,
              points_map |-> d.points_map, filtered |-> d.filtered,
              reads |-> d.reads, iters |-> d.iters]))))

(* ------------------------ GeoApi._PointsCoords ------------------------- *)

\* p['distance'] < radius for the distance distance * _EARTH_RADIUS * 4
\* reported in metres, for a radius in whole kilometres
WithinRadius(distance2, radius) ==
  LET km == _EARTH_RADIUS \div 1000
  IN  distance2 * km * km < (radius \div 1000) * (radius \div 1000)

\* list.sort(key=distance) of a list: the sort is stable
RECURSIVE StableSort(_)
StableSort(points) ==
  IF points = <<>> THEN <<>>
  ELSE LET n == Len(points)
           e == points[n]
           sorted == StableSort(SubSeq(points, 1, n - 1))
       IN  SelectSeq(sorted, LAMBDA p : p.distance <= e.distance)
             \o <<e>>
             \o SelectSeq(sorted, LAMBDA p : p.distance > e.distance)

\* GeoApi._PointsCoords: _FromXYZ and _GetDistance raise TypeError on a
\* None coord
GeoApi_PointsCoords(apps, app, point_id, points_ids, kwargs) ==
  Bind(_GetPointCoord(apps, app, point_id, kwargs), LAMBDA c :
  Bind(KwGet(kwargs, "points_limit", Len(points_ids)), LAMBDA points_limit :
  Bind(KwGet(kwargs, "radius", 0), LAMBDA radius :
  Bind(GetPointsCoords(apps, app, points_ids), LAMBDA pcs :
    IF \/ ~c.ok
       \/ pcs # <<>> /\ c.coord = None
       \/ \E i \in 1..Len(pcs) : pcs[i][2] = None
      THEN [status |-> "raised", result |-> <<>>]
      ELSE Bind([i \in 1..Len(pcs) |->
                  [point_id |-> pcs[i][1],
                   distance |-> _GetDistance2(c.coord, pcs[i][2])]],
                LAMBDA points :
           Bind(StableSort(
                  IF radius > 0
                    THEN SelectSeq(points,
                           LAMBDA p : WithinRadius(p.distance, radius))
                    ELSE points), LAMBDA sorted :
             [status |-> "ok",
              result |-> SubSeq(sorted, 1,
                                SliceLen(Len(sorted), points_limit))]))))))

(* ------------------------------ actions -------------------------------- *)

\* `last` when no call is in progress
Idle == [op |-> "idle"]

\* the state after AppStorage.CreateApp(app_id, MAX_ZOOM_LEVEL) of the driver
Init ==
  /\ now = 0
  /\ _APPS = [a \in {app_id} |-> CreateApp(MAX_ZOOM_LEVEL)]
  /\ _CACHE = <<>>
  /\ last = Idle

\* the wall clock reaches the instant t, between two calls
Tick(t) ==
  /\ last = Idle
  /\ t > now
  /\ now' = t
  /\ UNCHANGED <<_APPS, _CACHE, last>>

\* the caller of the last call has taken what it returned or raised; the
\* program is single-threaded, so the next call starts after that
Return ==
  /\ last # Idle
  /\ last' = Idle
  /\ UNCHANGED <<now, _APPS, _CACHE>>

\* ManagementApi.CreatePoint
CreatePoint(app_auth_token, point_id) ==
  /\ last = Idle
  /\ IF ValidateAppAuthToken(_APPS, app_auth_token)
       THEN /\ _APPS' = AddPoint(_APPS, app_auth_token[1], point_id)
            /\ last' = [op |-> "CreatePoint", status |-> "ok"]
       ELSE /\ last' = [op |-> "CreatePoint", status |-> "raised"]
            /\ UNCHANGED _APPS
  /\ UNCHANGED <<now, _CACHE>>

\* ManagementApi.DeletePoint: del raises KeyError on an unknown point
DeletePoint(app_auth_token, point_id) ==
  /\ last = Idle
  /\ IF /\ ValidateAppAuthToken(_APPS, app_auth_token)
        /\ HasPoint(_APPS, app_auth_token[1], point_id)
       THEN /\ _APPS' = DeletePoint_(_APPS, app_auth_token[1], point_id)
            /\ last' = [op |-> "DeletePoint", status |-> "ok"]
       ELSE /\ last' = [op |-> "DeletePoint", status |-> "raised"]
            /\ UNCHANGED _APPS
  /\ UNCHANGED <<now, _CACHE>>

\* ManagementApi.SetPointSubjects: points[point_id] raises KeyError on an
\* unknown point
SetSubjects(app_auth_token, point_id, subjects) ==
  /\ last = Idle
  /\ IF /\ ValidateAppAuthToken(_APPS, app_auth_token)
        /\ HasPoint(_APPS, app_auth_token[1], point_id)
       THEN /\ _APPS' = SetPointSubjects(_APPS, app_auth_token[1], point_id,
                                         subjects)
            /\ last' = [op |-> "SetPointSubjects", status |-> "ok"]
       ELSE /\ last' = [op |-> "SetPointSubjects", status |-> "raised"]
            /\ UNCHANGED _APPS
  /\ UNCHANGED <<now, _CACHE>>

\* a variant of HandlerArgs that lets the kwargs of a NEAREST_POINTS call
\* name the subject
HandlerArgsFromKwargs(msg, kwargs) ==
  [app_id |-> msg[1], point_id |-> msg[2],
   params |-> IF msg[3] = NEAREST_POINTS
                THEN KwGet(kwargs, "subject_id", msg[4])
                ELSE msg[4],
   kwargs |-> kwargs]

\* the arguments GeoApi.Call gives to the handler of the method table:
\* (app_id, point_id, params) of the validated token, and kwargs
HandlerArgs(msg, kwargs) ==
  [app_id |-> msg[1], point_id |-> msg[2], params |-> msg[4],
   kwargs |-> kwargs]

\* what every GeoApi.Call leaves in `last`
CallRecord(geo_auth_token, kwargs, validation) ==
  [op |-> "Call", token |-> geo_auth_token, kwargs |-> kwargs,
   validation |-> validation]

\* GeoApi.Call when ValidateGeoAuthToken raises
CallRejected(geo_auth_token, kwargs) ==
  LET v == ValidateGeoAuthToken(_APPS, geo_auth_token, now)
  IN  /\ v # "ok"
      /\ last' = CallRecord(geo_auth_token, kwargs, v)
                   @@ [status |-> "raised", method_id |-> 0]
      /\ UNCHANGED <<now, _APPS, _CACHE>>

\* GeoApi.Call dispatching to _UpdatePoint(app_id, point_id, params, kwargs)
CallUpdatePoint(geo_auth_token, kwargs) ==
  LET msg == geo_auth_token.msg
      h == HandlerArgs(msg, kwargs)
  IN  /\ ValidateGeoAuthToken(_APPS, geo_auth_token, now) = "ok"
      /\ msg[3] = UPDATE_POINT
      /\ \E r \in {GeoApi_UpdatePoint(_APPS, _CACHE, h.app_id, h.point_id,
                                      h.kwargs, now)} :
           /\ _APPS' = r.apps
           /\ _CACHE' = r.cache
           /\ last' = CallRecord(geo_auth_token, kwargs, "ok")
                        @@ [status |-> r.status, method_id |-> UPDATE_POINT,
                            app_id |-> h.app_id, point_id |-> h.point_id,
                            coord |-> r.coord, calls |-> r.calls]
           /\ UNCHANGED now

\* GeoApi.Call dispatching to _NearestPoints(app_id, point_id, subject_id,
\* kwargs)
CallNearestPoints(geo_auth_token, kwargs) ==
  LET msg == geo_auth_token.msg
      h == HandlerArgs(msg, kwargs)
  IN  /\ ValidateGeoAuthToken(_APPS, geo_auth_token, now) = "ok"
      /\ msg[3] = NEAREST_POINTS
      /\ \E r \in {GeoApi_NearestPoints(_APPS, _CACHE, h.app_id, h.point_id,
                                        h.params, h.kwargs, now)} :
           /\ _CACHE' = r.cache
           /\ \E result \in IF r.status = "ok"
                              THEN SortedSlices(r.points_map, r.filtered,
                                                r.points_limit)
                              ELSE {<<>>} :
                last' = CallRecord(geo_auth_token, kwargs, "ok")
                          @@ [status |-> r.status,
                              method_id |-> NEAREST_POINTS,
                              app_id |-> h.app_id, point_id |-> h.point_id,
                              subject_id |-> h.params, coord |-> r.coord,
                              points_limit |-> r.points_limit,
                              reads |-> r.reads, iters |-> r.iters,
                              result |-> result]
           /\ UNCHANGED <<now, _APPS>>

\* GeoApi.Call dispatching to _PointsCoords(app_id, point_id, points_ids,
\* kwargs)
CallPointsCoords(geo_auth_token, kwargs) ==
  LET msg == geo_auth_token.msg
      h == HandlerArgs(msg, kwargs)
  IN  /\ ValidateGeoAuthToken(_APPS, geo_auth_token, now) = "ok"
      /\ msg[3] = POINTS_COORDS
      /\ \E r \in {GeoApi_PointsCoords(_APPS, h.app_id, h.point_id, h.params,
                                       h.kwargs)} :
           /\ last' = CallRecord(geo_auth_token, kwargs, "ok")
                        @@ [status |-> r.status, method_id |-> POINTS_COORDS,
                            app_id |-> h.app_id, point_id |-> h.point_id,
                            points_ids |-> h.params, result |-> r.result]
           /\ UNCHANGED <<now, _APPS, _CACHE>>

\* GeoApi.Call
Call(geo_auth_token, kwargs) ==
  /\ last = Idle
  /\ \/ CallRejected(geo_auth_token, kwargs)
     \/ CallUpdatePoint(geo_auth_token, kwargs)
     \/ CallNearestPoints(geo_auth_token, kwargs)
     \/ CallPointsCoords(geo_auth_token, kwargs)

(* ----------------------- the calls that are made ----------------------- *)

\* the ManagementApi.Get...AuthToken calls, made at time t
GetUpdatePointAuthToken(point_id, t) ==
  GetGeoAuthToken(_APPS, app_id, point_id, UPDATE_POINT, None, t)

GetNearestPointsAuthToken(point_id, subject_id, t) ==
  GetGeoAuthToken(_APPS, app_id, point_id, NEAREST_POINTS, subject_id, t)

GetPointsCoordsAuthToken(point_id, points_ids, t) ==
  GetGeoAuthToken(_APPS, app_id, point_id, POINTS_COORDS, points_ids, t)

\* the app auth token of the driver, and a guessed one
AppTokens == {GetAppAuthToken(_APPS, app_id), <<app_id, "guess">>}

\* geodetic coordinates: on the equator at sea level, at longitude 0
CoordA == <<0, 0, 0>>

\* the clock readings at which calls are made: the start, and a minute later
Instants == {0, _TTL * TicksPerSecond}

\* subjects given to SetPointSubjects
SubjectLists == {<< <<"S0", 1>> >>, << <<"S0", 2>> >>}

\* Spec: every call of the two APIs, on three points of one subject that
\* publish one coordinate.  A client gets its token and calls at once.
Next ==
  \/ Return
  \/ \E t \in Instants : Tick(t)
  \/ \E tok \in AppTokens, p \in PointIds : CreatePoint(tok, p)
  \/ \E tok \in AppTokens, p \in PointIds : DeletePoint(tok, p)
  \/ \E tok \in AppTokens, p \in PointIds, subjects \in SubjectLists :
       SetSubjects(tok, p, subjects)
  \/ \E p \in PointIds :
       Call(GetUpdatePointAuthToken(p, now), [coord |-> CoordA])
  \/ \E p \in {"P0"}, kw \in {<<>>, [coord |-> CoordA, points_limit |-> 1]} :
       Call(GetNearestPointsAuthToken(p, "S0", now), kw)
  \/ \E p \in {"P0"} :
       Call(GetPointsCoordsAuthToken(p, <<"P1", "P0">>, now), <<>>)

Spec == Init /\ [][Next]_vars

\* SpecTTL: two points of one subject, written and read at the start, a
\* tick later, a second later and a minute later
InstantsTTL == {1, TicksPerSecond, _TTL * TicksPerSecond}

NextTTL ==
  \/ Return
  \/ \E t \in InstantsTTL : Tick(t)
  \/ \E p \in {"P0", "P1"} : CreatePoint(GetAppAuthToken(_APPS, app_id), p)
  \/ \E p \in {"P0", "P1"} :
       SetSubjects(GetAppAuthToken(_APPS, app_id), p, << <<"S0", 1>> >>)
  \/ \E p \in {"P0", "P1"} :
       Call(GetUpdatePointAuthToken(p, now), [coord |-> CoordA])
  \/ Call(GetNearestPointsAuthToken("P0", "S0", now), [coord |-> CoordA])

SpecTTL == Init /\ [][NextTTL]_vars

\* SpecSubjects: three points that follow two subjects at one priority,
\* or one subject at a higher one, and publish one coordinate
SubjectListsTwo ==
  {<< <<"S0", 1>>, <<"S1", 1>> >>, << <<"S0", 2>> >>}

NextSubjects ==
  \/ Return
  \/ \E p \in PointIds : CreatePoint(GetAppAuthToken(_APPS, app_id), p)
  \/ \E p \in PointIds, subjects \in SubjectListsTwo :
       SetSubjects(GetAppAuthToken(_APPS, app_id), p, subjects)
  \/ \E p \in PointIds :
       Call(GetUpdatePointAuthToken(p, now), [coord |-> CoordA])

SpecSubjects == Init /\ [][NextSubjects]_vars

\* SpecAuth: tokens minted at the start or at the call, used until just
\* after they expire, with kwargs that name another subject, point, app,
\* method and params, and a token whose msg was altered after minting
ExpiryTick == _GEO_AUTH_TOKEN_TTL * TicksPerSecond

InstantsAuth == {ExpiryTick, ExpiryTick + 1}

MintInstants == {t \in {0, ExpiryTick} : t <= now}

Overrides ==
  [subject_id |-> "S1", point_id |-> "P1", app_id |-> "other",
   method_id |-> UPDATE_POINT, params |-> "S1"]

KwargsAuth == {[coord |-> CoordA], [coord |-> CoordA] @@ Overrides}

Altered(geo_auth_token) == [geo_auth_token EXCEPT !.msg[4] = "S1"]

NextAuth ==
  \/ Return
  \/ \E t \in InstantsAuth : Tick(t)
  \/ \E p \in {"P0", "P1"} : CreatePoint(GetAppAuthToken(_APPS, app_id), p)
  \/ SetSubjects(GetAppAuthToken(_APPS, app_id), "P0", << <<"S0", 1>> >>)
  \/ SetSubjects(GetAppAuthToken(_APPS, app_id), "P1", << <<"S1", 1>> >>)
  \/ \E p \in {"P0", "P1"}, t \in MintInstants, kw \in KwargsAuth :
       Call(GetUpdatePointAuthToken(p, t), kw)
  \/ \E t \in MintInstants, kw \in KwargsAuth :
       Call(GetNearestPointsAuthToken("P0", "S0", t), kw)
  \/ \E t \in MintInstants, kw \in KwargsAuth :
       Call(Altered(GetNearestPointsAuthToken("P0", "S0", t)), kw)
  \/ \E t \in MintInstants, kw \in {<<>>, Overrides} :
       Call(GetPointsCoordsAuthToken("P0", <<"P1", "P0">>, t), kw)

SpecAuth == Init /\ [][NextAuth]_vars

\* geodetic coordinates: on the equator at sea level, at longitude 180; its
\* sector is that of CoordA at zoom level 0 and at no other
CoordB == <<0, 180, 0>>

\* SpecClimb: two points that follow one subject and publish CoordA, and a
\* third that follows that subject and another at a lower priority, or that
\* subject alone, and publishes CoordA or CoordB
NextClimb ==
  \/ Return
  \/ \E p \in PointIds : CreatePoint(GetAppAuthToken(_APPS, app_id), p)
  \/ \E p \in {"P0", "P1"} :
       SetSubjects(GetAppAuthToken(_APPS, app_id), p, << <<"S0", 2>> >>)
  \/ \E subjects \in SubjectListsTwo :
       SetSubjects(GetAppAuthToken(_APPS, app_id), "P2", subjects)
  \/ \E p \in PointIds :
       Call(GetUpdatePointAuthToken(p, now), [coord |-> CoordA])
  \/ Call(GetUpdatePointAuthToken("P2", now), [coord |-> CoordB])

SpecClimb == Init /\ [][NextClimb]_vars

\* SpecMove: a point of one subject that changes priority and moves
\* between CoordA and CoordB, a second apart, and a query at either
InstantsMove == {TicksPerSecond}

NextMove ==
  \/ Return
  \/ \E t \in InstantsMove : Tick(t)
  \/ CreatePoint(GetAppAuthToken(_APPS, app_id), "P0")
  \/ \E subjects \in SubjectLists :
       SetSubjects(GetAppAuthToken(_APPS, app_id), "P0", subjects)
  \/ \E coord \in {CoordA, CoordB} :
       Call(GetUpdatePointAuthToken("P0", now), [coord |-> coord])
  \/ \E coord \in {CoordA, CoordB} :
       Call(GetNearestPointsAuthToken("P0", "S0", now), [coord |-> coord])

SpecMove == Init /\ [][NextMove]_vars

\* geodetic coordinates: the north pole at sea level; its sector is that of
\* CoordA at every zoom level of the model
CoordN == <<90, 0, 0>>

\* kwargs of the NearestPoints calls of SpecNearest: at CoordA for one
\* point or two, and at CoordB within a radius of two Earth radii
KwargsNearest ==
  {[coord |-> CoordA, points_limit |-> 1],
   [coord |-> CoordA, points_limit |-> 2],
   [coord |-> CoordB, points_limit |-> 1, radius |-> 2 * _EARTH_RADIUS]}

\* the coordinates each point publishes in SpecNearest
CoordsOf ==
  [p \in PointIds |->
    IF p = "P0" THEN {CoordA}
    ELSE IF p = "P1" THEN {CoordA, CoordN}
    ELSE {CoordA, CoordB}]

\* SpecNearest: three points of one subject that publish the coordinates of
\* CoordsOf, and the queries of KwargsNearest
NextNearest ==
  \/ Return
  \/ \E p \in PointIds : CreatePoint(GetAppAuthToken(_APPS, app_id), p)
  \/ \E p \in PointIds :
       SetSubjects(GetAppAuthToken(_APPS, app_id), p, << <<"S0", 1>> >>)
  \/ \E p \in PointIds : \E coord \in CoordsOf[p] :
       Call(GetUpdatePointAuthToken(p, now), [coord |-> coord])
  \/ \E kw \in KwargsNearest :
       Call(GetNearestPointsAuthToken("P0", "S0", now), kw)

SpecNearest == Init /\ [][NextNearest]_vars

\* the radius values of the NearestPoints calls of SpecRadius, in metres:
\* none, half an Earth radius, one, two, a metre more, and three
Radii ==
  {0, _EARTH_RADIUS \div 2, _EARTH_RADIUS, 2 * _EARTH_RADIUS,
   2 * _EARTH_RADIUS + 1, 3 * _EARTH_RADIUS}

\* SpecRadius: two points of one subject at CoordA, and queries at CoordA
\* with the radius values of Radii or without radius
NextRadius ==
  \/ Return
  \/ \E p \in {"P0", "P1"} : CreatePoint(GetAppAuthToken(_APPS, app_id), p)
  \/ \E p \in {"P0", "P1"} :
       SetSubjects(GetAppAuthToken(_APPS, app_id), p, << <<"S0", 1>> >>)
  \/ \E p \in {"P0", "P1"} :
       Call(GetUpdatePointAuthToken(p, now), [coord |-> CoordA])
  \/ Call(GetNearestPointsAuthToken("P0", "S0", now), [coord |-> CoordA])
  \/ \E radius \in Radii :
       Call(GetNearestPointsAuthToken("P0", "S0", now),
            [coord |-> CoordA, radius |-> radius])

SpecRadius == Init /\ [][NextRadius]_vars

\* geodetic coordinates with a latitude of 180 degrees, and with one of
\* 5220 degrees, which is above 90 radians
CoordLat180 == <<180, 0, 0>>

CoordLat5220 == <<5220, 0, 0>>

\* geodetic coordinates: on the equator at longitude 0, one Earth radius
\* above sea level, which is x = 1.0 in the unit cube
CoordHigh == <<0, 0, _EARTH_RADIUS>>

\* the coordinates of the calls of SpecCoord
CoordsCoord == {CoordA, CoordLat180, CoordLat5220, CoordHigh}

\* SpecCoord: two points of one subject that publish the coordinates of
\* CoordsCoord, and queries at each of them
NextCoord ==
  \/ Return
  \/ \E p \in {"P0", "P1"} : CreatePoint(GetAppAuthToken(_APPS, app_id), p)
  \/ \E p \in {"P0", "P1"} :
       SetSubjects(GetAppAuthToken(_APPS, app_id), p, << <<"S0", 1>> >>)
  \/ \E p \in {"P0", "P1"}, coord \in CoordsCoord :
       Call(GetUpdatePointAuthToken(p, now), [coord |-> coord])
  \/ \E coord \in CoordsCoord :
       Call(GetNearestPointsAuthToken("P0", "S0", now), [coord |-> coord])

SpecCoord == Init /\ [][NextCoord]_vars

\* geo_auth_token with one field of its msg, or its msg_hmac, changed after
\* minting
AlteredTokens(geo_auth_token) ==
  {[geo_auth_token EXCEPT !.msg[1] = "other"],
   [geo_auth_token EXCEPT !.msg[2] = "P1"],
   [geo_auth_token EXCEPT !.msg[3] = NEAREST_POINTS],
   [geo_auth_token EXCEPT !.msg[4] = <<"P1">>],
   [geo_auth_token EXCEPT !.msg[5] = @ + 1],
   [geo_auth_token EXCEPT !.msg_hmac = <<"guess", geo_auth_token.msg>>]}

\* SpecReject: a point that is created, written and deleted, a second point
\* in the roster, and calls with tokens of the first point minted at the
\* start or at the call, used until after they expire, as minted or altered
NextReject ==
  \/ Return
  \/ Tick(ExpiryTick + 1)
  \/ \E p \in {"P0", "P1"} : CreatePoint(GetAppAuthToken(_APPS, app_id), p)
  \/ SetSubjects(GetAppAuthToken(_APPS, app_id), "P0", << <<"S0", 1>> >>)
  \/ DeletePoint(GetAppAuthToken(_APPS, app_id), "P0")
  \/ \E t \in {0, now} :
       Call(GetUpdatePointAuthToken("P0", t), [coord |-> CoordA])
  \/ \E t \in {0, now} :
       \E tok \in AlteredTokens(GetUpdatePointAuthToken("P0", t)) :
         Call(tok, [coord |-> CoordA])
  \/ \E t \in {0, now} :
       Call(GetNearestPointsAuthToken("P0", "S0", t), [coord |-> CoordA])

SpecReject == Init /\ [][NextReject]_vars

(* ------------------------------ claims --------------------------------- *)

\* the last call was a GeoApi.Call that passed validation, of this method
IsCallOf(method_id) ==
  /\ last.op = "Call"
  /\ last.validation = "ok"
  /\ last.method_id = method_id

\* the UpdatePointInSector calls made by the last call
SectorCalls ==
  IF IsCallOf(UPDATE_POINT)
    THEN {last.calls[i] : i \in DOMAIN last.calls}
    ELSE {}

\* the GetPointsInSector calls made by the last call
SectorReads ==
  IF IsCallOf(NEAREST_POINTS)
    THEN {last.reads[i] : i \in DOMAIN last.reads}
    ELSE {}

Ids(points) == {points[i].point_id : i \in DOMAIN points}

MinPriorityOf(points) ==
  CHOOSE m \in {points[i].priority : i \in DOMAIN points} :
    \A i \in DOMAIN points : m <= points[i].priority

FirstMinIndex(points) ==
  CHOOSE i \in DOMAIN points :
    /\ points[i].priority = MinPriorityOf(points)
    /\ \A j \in 1..(i - 1) : points[j].priority # MinPriorityOf(points)

\* C1: every bucket of the cache holds at most _MAX_POINTS_PER_SECTOR
\* entries, before and after every UpdatePointInSector, and the assertion
\* of _UpdatePoint never fails
C1_Capacity ==
  /\ \A key \in DOMAIN _CACHE : Len(_CACHE[key]) <= _MAX_POINTS_PER_SECTOR
  /\ \A c \in SectorCalls :
       /\ ~c.raised
       /\ Len(c.before) <= _MAX_POINTS_PER_SECTOR
       /\ Len(c.after) <= _MAX_POINTS_PER_SECTOR

\* a point that was not resident has been admitted to a full bucket, which
\* is still full
C1_Witness ==
  \E c \in SectorCalls :
    /\ Len(c.live) = _MAX_POINTS_PER_SECTOR
    /\ c.point_id \notin Ids(c.live)
    /\ c.ret
    /\ Len(_CACHE[c.key]) = _MAX_POINTS_PER_SECTOR

\* C2: no bucket of the cache holds two entries with the same point_id
C2_Uniqueness ==
  \A key \in DOMAIN _CACHE :
    \A i, j \in DOMAIN _CACHE[key] :
      _CACHE[key][i].point_id = _CACHE[key][j].point_id => i = j

\* a resident point that is not the first of its bucket has been updated
\* in place
C2_Witness ==
  \E c \in SectorCalls :
    /\ c.ret
    /\ \E i \in DOMAIN c.live : i > 1 /\ c.live[i].point_id = c.point_id
    /\ Len(c.after) = Len(c.live)
    /\ _CACHE[c.key] = c.after

\* C3: every entry GetPointsInSector returns at the clock value now has
\* exp_time > now, and an absent key and an empty bucket give the empty
\* sequence
C3_NoExpiredRead ==
  \A r \in SectorReads :
    /\ \A i \in DOMAIN r.points :
         r.points[i].exp_time * TicksPerSecond > now
    /\ r.before = <<>> => r.points = <<>>
    /\ r.key \notin DOMAIN _CACHE => r.points = <<>>

\* a read of a bucket that held an expired entry and a live one
C3_Witness ==
  \E r \in SectorReads :
    /\ r.points # <<>>
    /\ Len(r.points) < Len(r.before)

\* C4: when UpdatePointInSector returns false, the purged bucket held
\* exactly _MAX_POINTS_PER_SECTOR entries, none of them of the incoming
\* point, and each of a priority at least the incoming one
C4_PriorityFloor ==
  \A c \in SectorCalls :
    ~c.ret /\ ~c.raised =>
      /\ Len(c.live) = _MAX_POINTS_PER_SECTOR
      /\ c.point_id \notin Ids(c.live)
      /\ \A i \in DOMAIN c.live : c.live[i].priority >= c.priority

\* a point has been rejected by a bucket with a resident of a priority
\* above its own and a resident of its own priority
C4_Witness ==
  \E c \in SectorCalls :
    /\ ~c.ret
    /\ ~c.raised
    /\ \E i \in DOMAIN c.live : c.live[i].priority > c.priority
    /\ \E i \in DOMAIN c.live : c.live[i].priority = c.priority

\* C5, as the claim states it: a GeoApi.Call whose token has
\* exp_time <= now is rejected by ValidateGeoAuthToken, so that no handler
\* runs
C5_ExpiredTokenRejected ==
  last.op = "Call" /\ last.token.msg[5] * TicksPerSecond <= now
    => last.validation # "ok"

\* C6: a call that passes validation runs the handler of the token's
\* method on the token's app, point and params, whatever its kwargs: the
\* buckets read are those of the token's app and subject, and the buckets
\* written are those of the token's app and hold the token's point
C6_TokenBinding ==
  last.op = "Call" /\ last.validation = "ok" =>
    /\ last.method_id = last.token.msg[3]
    /\ last.app_id = last.token.msg[1]
    /\ last.point_id = last.token.msg[2]
    /\ last.method_id = NEAREST_POINTS =>
         /\ last.subject_id = last.token.msg[4]
         /\ \A r \in SectorReads :
              /\ r.key[1] = last.token.msg[1]
              /\ r.key[2] = last.token.msg[4]
    /\ last.method_id = UPDATE_POINT =>
         \A c \in SectorCalls :
           /\ c.key[1] = last.token.msg[1]
           /\ c.point_id = last.token.msg[2]
    /\ last.method_id = POINTS_COORDS =>
         last.points_ids = last.token.msg[4]

\* a NEAREST_POINTS call of a token of subject S0, with kwargs that name
\* the subject S1, another point, app, method and params, has returned a
\* point of S0 while a bucket of S1 holds an entry
C6_Witness ==
  /\ IsCallOf(NEAREST_POINTS)
  /\ last.token.msg[4] = "S0"
  /\ "subject_id" \in DOMAIN last.kwargs
  /\ last.status = "ok"
  /\ last.result # <<>>
  /\ \E key \in DOMAIN _CACHE : key[2] = "S1" /\ _CACHE[key] # <<>>

\* the coordinate a NearestPoints call asks about: the coord of its kwargs,
\* or the canonical coordinate of the token's point
QueryCoord ==
  IF "coord" \in DOMAIN last.kwargs
    THEN _ToXYZ(last.kwargs.coord).xyz
    ELSE _APPS[last.app_id].points[last.point_id].coord

\* the point P follows the subject of the last call, its last update was at
\* the coordinate coord, and its entry is live in the sector of coord at the
\* maximum zoom level
SelfMatchCase(P, coord) ==
  LET app == last.app_id
      zoom_level == GetMaxZoomLevel(_APPS, app)
      key == <<app, last.subject_id, _GetSectorId(coord, zoom_level),
               zoom_level>>
      subjects == GetPointSubjects(_APPS, app, P)
  IN  /\ coord # None
      /\ _APPS[app].points[P].coord = coord
      /\ \E i \in DOMAIN subjects : subjects[i][1] = last.subject_id
      /\ key \in DOMAIN _CACHE
      /\ \E i \in DOMAIN _CACHE[key] :
           /\ _CACHE[key][i].point_id = P
           /\ IsLive(_CACHE[key][i], now)

\* C7, as the claim states it: a NearestPoints call with no radius and
\* points_limit >= 1, at the coordinate of a point P whose entry is live in
\* its sector of the maximum zoom level, returns P at distance 0 unless
\* points_limit other points at distance 0 are returned, and returns P alone
\* when the cache holds entries of P only
C7_SelfMatch ==
  /\ IsCallOf(NEAREST_POINTS)
  /\ "radius" \notin DOMAIN last.kwargs
  /\ KwGet(last.kwargs, "points_limit", _DEFAULT_POINTS_LIMIT) >= 1
  => \A P \in DOMAIN _APPS[last.app_id].points :
       SelfMatchCase(P, QueryCoord) =>
         /\ last.status = "ok"
         /\ LET result == last.result
                others == {i \in DOMAIN result :
                             /\ result[i].point_id # P
                             /\ result[i].distance = 0}
            IN  Cardinality(others)
                  < KwGet(last.kwargs, "points_limit", _DEFAULT_POINTS_LIMIT)
                => \E i \in DOMAIN result :
                     result[i].point_id = P /\ result[i].distance = 0
         /\ (\A key \in DOMAIN _CACHE : Ids(_CACHE[key]) \subseteq {P})
              => /\ Len(last.result) = 1
                 /\ last.result[1].point_id = P
                 /\ last.result[1].distance = 0

\* latitude in [-90, 90] and longitude in [-180, 180] degrees
InRange(coord) ==
  /\ -90 <= coord[1] /\ coord[1] <= 90
  /\ -180 <= coord[2] /\ coord[2] <= 180

\* C8: an UpdatePoint call with a valid token and an in-range coord
\* completes normally and leaves the projected coordinate as the canonical
\* coordinate of the point, whatever the sectors answer
C8_SilentRejection ==
  /\ IsCallOf(UPDATE_POINT)
  /\ "coord" \in DOMAIN last.kwargs
  /\ InRange(last.kwargs.coord)
  => /\ last.status = "ok"
     /\ _APPS[last.app_id].points[last.point_id].coord
          = _ToXYZ(last.kwargs.coord).xyz

\* an UpdatePoint of a point with two subjects has been rejected by the
\* sector of the maximum zoom level for each of them
C8_Witness ==
  /\ IsCallOf(UPDATE_POINT)
  /\ last.status = "ok"
  /\ Len(GetPointSubjects(_APPS, last.app_id, last.point_id)) = 2
  /\ Len(last.calls) = 2
  /\ last.calls[1].key[2] # last.calls[2].key[2]
  /\ \A c \in SectorCalls : ~c.ret /\ c.key[4] = MAX_ZOOM_LEVEL

\* C9, as the claim states it: an entry written by UpdatePointInSector at
\* time t has exp_time = t + _TTL, for every write instant t
C9_LifetimeIsTTL ==
  \A c \in SectorCalls :
    c.ret =>
      \E i \in DOMAIN c.after :
        /\ c.after[i].point_id = c.point_id
        /\ c.after[i].exp_time * TicksPerSecond = now + _TTL * TicksPerSecond

\* C10: on a full bucket that does not hold the incoming point, a minimum
\* resident priority below the incoming one makes UpdatePointInSector
\* return true and replace the first entry of minimum priority and no
\* other, and a minimum equal to the incoming one makes it return false and
\* leave the bucket as it was
C10_EvictionRule ==
  \A c \in SectorCalls :
    Len(c.live) = _MAX_POINTS_PER_SECTOR /\ c.point_id \notin Ids(c.live) =>
      /\ MinPriorityOf(c.live) < c.priority =>
           /\ c.ret
           /\ Len(c.after) = Len(c.live)
           /\ c.after[FirstMinIndex(c.live)].point_id = c.point_id
           /\ c.after[FirstMinIndex(c.live)].priority = c.priority
           /\ \A i \in DOMAIN c.live :
                i # FirstMinIndex(c.live) => c.after[i] = c.live[i]
           /\ _CACHE[c.key] = c.after
      /\ MinPriorityOf(c.live) = c.priority =>
           /\ ~c.ret
           /\ c.after = c.before
           /\ _CACHE[c.key] = c.before

\* a point has evicted the first of two residents that share the minimum
\* priority
C10_Witness ==
  \E c \in SectorCalls :
    /\ c.ret
    /\ Len(c.live) = _MAX_POINTS_PER_SECTOR
    /\ c.point_id \notin Ids(c.live)
    /\ \E i, j \in DOMAIN c.live :
         /\ i < j
         /\ c.live[i].priority = c.live[j].priority
         /\ c.live[i].priority = MinPriorityOf(c.live)
         /\ c.after[i].point_id = c.point_id

\* C11: when the purged bucket holds an entry of the incoming point,
\* UpdatePointInSector returns true and replaces that entry, in place, by
\* one with the incoming priority and the new exp_time, whether or not the
\* bucket is full and whatever the residents' priorities; the size of the
\* bucket and its other entries do not change
C11_UpdateInPlace ==
  \A c \in SectorCalls :
    \A i \in DOMAIN c.live :
      c.live[i].point_id = c.point_id =>
        /\ c.ret
        /\ ~c.raised
        /\ Len(c.after) = Len(c.live)
        /\ c.after[i] = [point_id |-> c.point_id, priority |-> c.priority,
                         exp_time |-> (now + _TTL * TicksPerSecond)
                                        \div TicksPerSecond]
        /\ \A j \in DOMAIN c.live : j # i => c.after[j] = c.live[j]
        /\ _CACHE[c.key] = c.after

\* a resident of a full bucket, not its first entry, has been updated with
\* a priority below that of every resident
C11_Witness ==
  \E c \in SectorCalls :
    /\ c.ret
    /\ Len(c.live) = _MAX_POINTS_PER_SECTOR
    /\ \E i \in DOMAIN c.live : i > 1 /\ c.live[i].point_id = c.point_id
    /\ \A i \in DOMAIN c.live : c.live[i].priority > c.priority

\* the calls of the last UpdatePoint on the buckets of subject_id, in order
CallsOf(subject_id) ==
  SelectSeq(last.calls, LAMBDA c : c.key[2] = subject_id)

\* the place of subject_id in the subjects of the point of the last call
SubjectIndex(subject_id) ==
  CHOOSE i \in DOMAIN GetPointSubjects(_APPS, last.app_id, last.point_id) :
    GetPointSubjects(_APPS, last.app_id, last.point_id)[i][1] = subject_id

\* the calls of the last UpdatePoint: for every subject of the point, in
\* the order of the subjects, one call per zoom level from the maximum
\* down, on the sector of the coordinate, each but the last returning true,
\* and the last returning false or being at zoom level 0
ClimbShape ==
  LET subjects == GetPointSubjects(_APPS, last.app_id, last.point_id)
      max_zoom_level == GetMaxZoomLevel(_APPS, last.app_id)
  IN  /\ \A a \in DOMAIN last.calls :
           \E i \in DOMAIN subjects : subjects[i][1] = last.calls[a].key[2]
      /\ \A a, b \in DOMAIN last.calls :
           a < b => SubjectIndex(last.calls[a].key[2])
                      <= SubjectIndex(last.calls[b].key[2])
      /\ \A i \in DOMAIN subjects :
           LET g == CallsOf(subjects[i][1])
           IN  /\ Len(g) >= 1
               /\ Len(g) <= max_zoom_level + 1
               /\ \A j \in DOMAIN g :
                    /\ g[j].key = <<last.app_id, subjects[i][1],
                                    _GetSectorId(last.coord,
                                                 max_zoom_level - j + 1),
                                    max_zoom_level - j + 1>>
                    /\ g[j].point_id = last.point_id
                    /\ g[j].priority = subjects[i][2]
                    /\ j < Len(g) => g[j].ret
               /\ ~g[Len(g)].ret \/ g[Len(g)].key[4] = 0

\* C12: an UpdatePoint call tries, for every subject of the point, the
\* sectors of the coordinate from the maximum zoom level down and stops
\* that subject's climb at the first sector that returns false or after
\* zoom level 0, then goes on with the next subject; a bucket that is not
\* among those tried is neither created nor changed
C12_ClimbOrder ==
  [][last = Idle /\ IsCallOf(UPDATE_POINT)' /\ last'.status = "ok" =>
       /\ ClimbShape'
       /\ \A key \in DOMAIN _CACHE' :
            (\A a \in DOMAIN last'.calls : last'.calls[a].key # key) =>
              key \in DOMAIN _CACHE /\ _CACHE'[key] = _CACHE[key]]_vars

\* an UpdatePoint of a point with two subjects: the first was admitted at
\* the maximum zoom level and rejected at the next, whose bucket stays
\* without the point, and the second was admitted down to zoom level 0
C12_Witness ==
  /\ IsCallOf(UPDATE_POINT)
  /\ last.status = "ok"
  /\ Len(GetPointSubjects(_APPS, last.app_id, last.point_id)) = 2
  /\ LET subjects == GetPointSubjects(_APPS, last.app_id, last.point_id)
         first == CallsOf(subjects[1][1])
         second == CallsOf(subjects[2][1])
     IN  /\ Len(first) = 2
         /\ first[1].ret
         /\ ~first[2].ret
         /\ last.point_id \notin Ids(_CACHE[first[2].key])
         /\ Len(second) = MAX_ZOOM_LEVEL + 1
         /\ second[Len(second)].ret

\* C13, as the claim states it: the priority NearestPoints returns for a
\* point is that of an entry of the point with the latest exp_time among
\* the entries its reads returned, whatever the order of the reads
C13_FreshestKept ==
  IsCallOf(NEAREST_POINTS) /\ last.status = "ok" =>
    \A i \in DOMAIN last.result :
      \E r \in SectorReads :
        \E j \in DOMAIN r.points :
          /\ r.points[j].point_id = last.result[i].point_id
          /\ r.points[j].priority = last.result[i].priority
          /\ \A q \in SectorReads :
               \A k \in DOMAIN q.points :
                 q.points[k].point_id = last.result[i].point_id =>
                   q.points[k].exp_time <= r.points[j].exp_time

\* the zoom level at which the descent of the last NearestPoints call
\* stopped
StopZoom == last.iters[Len(last.iters)].zoom_level

\* C14: for a positive points_limit, the sequence NearestPoints returns
\* has at most points_limit entries, no point_id twice, distances in
\* non-decreasing order, and every distance strictly below the tile size
\* 1 / (1 << z) of the zoom level z at which the descent stopped
C14_ResultShape ==
  IsCallOf(NEAREST_POINTS) /\ last.status = "ok" /\ last.points_limit > 0 =>
    /\ Len(last.result) <= last.points_limit
    /\ \A i, j \in DOMAIN last.result :
         last.result[i].point_id = last.result[j].point_id => i = j
    /\ \A i, j \in DOMAIN last.result :
         i < j => last.result[i].distance <= last.result[j].distance
    /\ \A i \in DOMAIN last.result :
         last.result[i].distance * TilesCount(StopZoom) * TilesCount(StopZoom)
           < CubeScale * CubeScale

\* a query with points_limit 2 has returned two points at different
\* distances, after a descent to zoom level 0, while a third candidate lies
\* at exactly the tile size of the maximum zoom level
C14_Witness ==
  /\ IsCallOf(NEAREST_POINTS)
  /\ last.status = "ok"
  /\ last.points_limit = 2
  /\ Len(last.result) = 2
  /\ last.result[1].distance < last.result[2].distance
  /\ StopZoom = 0
  /\ Cardinality(last.iters[1].candidates) = 3
  /\ \E P \in DOMAIN _APPS[last.app_id].points :
       /\ _APPS[last.app_id].points[P].coord # None
       /\ _GetDistance2(last.coord, _APPS[last.app_id].points[P].coord)
            * TilesCount(MAX_ZOOM_LEVEL) * TilesCount(MAX_ZOOM_LEVEL)
            = CubeScale * CubeScale

\* C15: the iterations of a NearestPoints call are at the zoom levels
\* start, start - 1, ... from the starting zoom level of _GetZoomLevel; an
\* iteration is followed by another only when its filtered count is at most
\* points_limit and its zoom level is not 0; the iteration after which the
\* call returns has a filtered count above points_limit or is at zoom level
\* 0; there are at most start + 1 iterations; and the candidates of an
\* iteration include those of the iteration before
C15_DescendRule ==
  IsCallOf(NEAREST_POINTS) /\ last.iters # <<>> =>
    LET iters == last.iters
        start == _GetZoomLevel(_APPS, last.app_id, last.kwargs).zoom_level
        n == Len(iters)
    IN  /\ start <= GetMaxZoomLevel(_APPS, last.app_id)
        /\ n <= start + 1
        /\ \A j \in 1..n : iters[j].zoom_level = start - j + 1
        /\ \A j \in 1..(n - 1) :
             /\ Cardinality(iters[j].filtered) <= last.points_limit
             /\ iters[j].zoom_level > 0
             /\ iters[j].candidates \subseteq iters[j + 1].candidates
        /\ last.status = "ok" =>
             \/ Cardinality(iters[n].filtered) > last.points_limit
             \/ iters[n].zoom_level = 0

\* a query has gone on from an iteration with exactly points_limit
\* filtered candidates to one with more
C15_Witness ==
  /\ IsCallOf(NEAREST_POINTS)
  /\ last.status = "ok"
  /\ Len(last.iters) = 2
  /\ Cardinality(last.iters[1].filtered) = last.points_limit
  /\ Cardinality(last.iters[2].filtered) > last.points_limit

\* clamp(floor(log2((2 * R) / radius)), 0, max_zoom_level) for a radius
\* above 0: the largest zoom level k <= max_zoom_level with
\* radius * 2^k <= 2 * R, and 0 when there is none
ClampedLog2(radius, max_zoom_level) ==
  LET ks == {k \in 0..max_zoom_level :
               radius * TilesCount(k) <= 2 * _EARTH_RADIUS}
  IN  IF ks = {} THEN 0 ELSE CHOOSE k \in ks : \A j \in ks : j <= k

\* C16, as the claim states it: for every radius above 0, also above
\* 2 * R, a NearestPoints call computes its starting zoom level without
\* error, as clamp(floor(log2((2 * R) / radius)), 0, max_zoom_level); with
\* a radius of 0 or less, or none, it starts at max_zoom_level
C16_StartZoom ==
  /\ IsCallOf(NEAREST_POINTS)
  /\ "coord" \in DOMAIN last.kwargs
  /\ InRange(last.kwargs.coord)
  => /\ last.iters # <<>>
     /\ last.iters[1].zoom_level =
          IF KwGet(last.kwargs, "radius", 0) > 0
            THEN ClampedLog2(last.kwargs.radius,
                             GetMaxZoomLevel(_APPS, last.app_id))
            ELSE GetMaxZoomLevel(_APPS, last.app_id)

\* C17, as the claim states it: an UpdatePoint or NearestPoints call whose
\* coord has a latitude outside [-90, 90] degrees or a longitude outside
\* [-180, 180] degrees raises, and leaves the canonical coordinates of
\* AppStorage and every bucket of the cache as they were
C17_OutOfRangeRejected ==
  [][/\ last = Idle
     /\ last'.op = "Call"
     /\ last'.validation = "ok"
     /\ last'.method_id \in {UPDATE_POINT, NEAREST_POINTS}
     /\ "coord" \in DOMAIN last'.kwargs
     /\ ~InRange(last'.kwargs.coord)
     => /\ last'.status = "raised"
        /\ _APPS' = _APPS
        /\ _CACHE' = _CACHE]_vars

\* key is (app, subject, (ix, iy, iz, z), zoom) with z = zoom, zoom within
\* 0..max_zoom_level of the app, and ix, iy, iz within 0..(1 << zoom) - 1
InGrid(key) ==
  /\ key[3][4] = key[4]
  /\ 0 <= key[4]
  /\ key[4] <= GetMaxZoomLevel(_APPS, key[1])
  /\ \A i \in 1..3 : 0 <= key[3][i] /\ key[3][i] < TilesCount(key[4])

\* C18: every bucket of the cache has an in-grid key, and a sector that
\* NearestPoints probes outside the grid gives no entries and gets no
\* bucket
C18_InGrid ==
  /\ \A key \in DOMAIN _CACHE : InGrid(key)
  /\ \A r \in SectorReads :
       ~InGrid(r.key) =>
         /\ r.points = <<>>
         /\ r.before = <<>>
         /\ ~r.bucket
         /\ r.key \notin DOMAIN _CACHE

\* a query at x = 1.0 of the unit cube has probed sectors of index
\* 1 << zoom and of index -1, and has returned a point held in the bucket
\* of the last in-grid sector
C18_Witness ==
  /\ IsCallOf(NEAREST_POINTS)
  /\ last.status = "ok"
  /\ last.kwargs.coord = CoordHigh
  /\ last.result # <<>>
  /\ \E r \in SectorReads : r.key[3][1] = TilesCount(r.key[4])
  /\ \E r \in SectorReads : r.key[3][1] = -1
  /\ \E r \in SectorReads :
       /\ r.points # <<>>
       /\ r.key[4] = MAX_ZOOM_LEVEL
       /\ r.key[3][1] = TilesCount(r.key[4]) - 1
       /\ _ToXYZ(CoordHigh).xyz[1] * TilesCount(r.key[4])
            = CubeScale * TilesCount(r.key[4])

\* the HMAC of the token is that of its msg under the key of its app
Genuine(geo_auth_token) ==
  /\ geo_auth_token.msg[1] \in DOMAIN _APPS
  /\ geo_auth_token.msg_hmac
       = <<_APPS[geo_auth_token.msg[1]].hmac_key, geo_auth_token.msg>>

\* C19: a GeoApi.Call whose token does not carry the HMAC of its msg, or
\* whose point is not in the roster of its app, raises in validation and
\* leaves AppStorage and the cache as they were; the HMAC is checked
\* before the expiry time, and the expiry time before the roster
C19_RejectedNoEffect ==
  [][last = Idle /\ last'.op = "Call" =>
       LET msg == last'.token.msg
           absent == msg[2] \notin DOMAIN _APPS[msg[1]].points
       IN  /\ ~Genuine(last'.token) =>
                last'.validation \in {"invalid hmac", "KeyError"}
           /\ Genuine(last'.token) /\ absent =>
                /\ last'.validation
                     \in {"auth token has been expired", "no point"}
                /\ msg[5] * TicksPerSecond < now =>
                     last'.validation = "auth token has been expired"
                /\ msg[5] * TicksPerSecond > now =>
                     last'.validation = "no point"
           /\ last'.validation # "ok" =>
                /\ last'.status = "raised"
                /\ last'.method_id = 0
                /\ _APPS' = _APPS
                /\ _CACHE' = _CACHE]_vars

\* a call with an expired token of a deleted point, whose entries are
\* still in the cache, has been rejected for the expiry
C19_Witness ==
  /\ last.op = "Call"
  /\ Genuine(last.token)
  /\ last.token.msg[2] \notin DOMAIN _APPS[last.token.msg[1]].points
  /\ last.token.msg[5] * TicksPerSecond < now
  /\ last.validation = "auth token has been expired"
  /\ \E key \in DOMAIN _CACHE : last.token.msg[2] \in Ids(_CACHE[key])

\* C20, as the claim states it: every point of a live entry of the cache
\* is in the roster of its app with a canonical coordinate, and a
\* NearestPoints call with a valid token and an in-range coord does not
\* fail
C20_JoinSatisfiable ==
  /\ \A key \in DOMAIN _CACHE :
       \A i \in DOMAIN _CACHE[key] :
         IsLive(_CACHE[key][i], now) =>
           /\ HasPoint(_APPS, key[1], _CACHE[key][i].point_id)
           /\ _APPS[key[1]].points[_CACHE[key][i].point_id].coord # None
  /\ IsCallOf(NEAREST_POINTS)
       /\ "coord" \in DOMAIN last.kwargs
       /\ InRange(last.kwargs.coord)
     => last.status = "ok"

====
